---- MODULE Spec2Model ----
(***************************************************************************)
(* Pulsed stretched-exponential evaluator (bdata integrator.pyx and        *)
(* FastNumericalIntegration_src/integration_fns.cpp).                      *)
(*                                                                         *)
(* Numbers.  A C double / Python float is modelled as a fixed-point        *)
(* number with Scale units per 1.0, magnitude at most MaxFin units, plus   *)
(* the three IEEE specials NaN, +Inf, -Inf.  Every arithmetic operation    *)
(* rounds to the nearest unit (ties to even), overflows to an infinity and *)
(* propagates NaN the way IEEE-754 does (0*Inf = NaN, Inf-Inf = NaN, ...). *)
(* Signed zeros are not distinguished.                                     *)
(***************************************************************************)
EXTENDS Integers, Sequences, FiniteSets, TLC

VARIABLES
    life,       \* Integrator.life
    pulse_len,  \* Integrator.pulse_len
    pc,         \* "new" (before __init__), "idle", "loop", "done", "error"
    op,         \* the method being run
    time,       \* its argument time
    par,        \* its other arguments
    n,          \* local n
    i,          \* local i: the number of loop passes completed
    out_arr,    \* local out_arr; the returned array when pc = "done"
    x,          \* local x: the integration object constructed last, if any
    reqs,       \* the quadrature requests the current call has made
    live,       \* integration objects allocated with new and not deleted
    err,        \* the exception a call ended in
    other       \* the locals of a second invocation running on another thread

vars == <<life, pulse_len, pc, op, time, par, n, i, out_arr, x, reqs, live, err, other>>

-----------------------------------------------------------------------------
(* double arithmetic *)

Scale == 32
MaxFin == 32767
PInf == MaxFin + 1
NInf == -PInf
NaN == MaxFin + 2
One == Scale

IsFinite(v) == v >= -MaxFin /\ v <= MaxFin
IsNaN(v) == v = NaN
IsInf(v) == v = PInf \/ v = NInf
Sign(v) == IF v > 0 THEN 1 ELSE IF v < 0 THEN -1 ELSE 0
Abs(v) == IF v < 0 THEN -v ELSE v

\* num/den rounded to the nearest integer, ties to even (den > 0)
RoundTie(q, r2, den) ==
    IF r2 < den THEN q
    ELSE IF r2 > den THEN q + 1
    ELSE IF q % 2 = 0 THEN q ELSE q + 1

RoundDiv(num, den) == RoundTie(num \div den, 2 * (num % den), den)

\* a finite result that left the representable range becomes an infinity
Norm(v) == IF v > MaxFin THEN PInf ELSE IF v < -MaxFin THEN NInf ELSE v

Neg(a) == IF IsNaN(a) THEN NaN ELSE -a

Add(a, b) ==
    IF IsNaN(a) \/ IsNaN(b) THEN NaN
    ELSE IF IsInf(a) /\ IsInf(b) THEN (IF a = b THEN a ELSE NaN)
    ELSE IF IsInf(a) THEN a
    ELSE IF IsInf(b) THEN b
    ELSE Norm(a + b)

Sub(a, b) == Add(a, Neg(b))

Mul(a, b) ==
    IF IsNaN(a) \/ IsNaN(b) THEN NaN
    ELSE IF IsInf(a) \/ IsInf(b)
         THEN (IF a = 0 \/ b = 0 THEN NaN
               ELSE IF Sign(a) * Sign(b) > 0 THEN PInf ELSE NInf)
    ELSE Norm(RoundDiv(a * b, Scale))

\* IEEE division, as C++ and C-level Cython expressions on nonzero divisors do it
Div(a, b) ==
    IF IsNaN(a) \/ IsNaN(b) THEN NaN
    ELSE IF IsInf(a) /\ IsInf(b) THEN NaN
    ELSE IF IsInf(a) THEN (IF b = 0 THEN a
                           ELSE IF Sign(a) * Sign(b) > 0 THEN PInf ELSE NInf)
    ELSE IF IsInf(b) THEN 0
    ELSE IF b = 0 THEN (IF a = 0 THEN NaN ELSE IF a > 0 THEN PInf ELSE NInf)
    ELSE IF b > 0 THEN Norm(RoundDiv(a * Scale, b))
    ELSE Norm(RoundDiv((-a) * Scale, -b))

\* a < b on doubles: false as soon as one side is NaN
Lt(a, b) == ~IsNaN(a) /\ ~IsNaN(b) /\ a < b

\* exp(v/Scale)*Scale rounded to the nearest unit, for v in ExpMin..ExpMax
ExpMin == -133
ExpMax == 221
ExpTab ==
    << 1, 1, 1, 1, 1, 1, 1, 1, 1, 1, 1, 1,
       1, 1, 1, 1, 1, 1, 1, 1, 1, 1, 1, 1,
       1, 1, 1, 1, 1, 1, 1, 1, 1, 1, 1, 1,
       2, 2, 2, 2, 2, 2, 2, 2, 2, 2, 2, 2,
       2, 2, 2, 2, 3, 3, 3, 3, 3, 3, 3, 3,
       3, 3, 3, 4, 4, 4, 4, 4, 4, 4, 4, 5,
       5, 5, 5, 5, 5, 6, 6, 6, 6, 6, 7, 7,
       7, 7, 7, 8, 8, 8, 8, 9, 9, 9, 9, 10,
       10, 10, 11, 11, 11, 12, 12, 13, 13, 13, 14, 14,
       15, 15, 16, 16, 17, 17, 18, 18, 19, 19, 20, 21,
       21, 22, 23, 23, 24, 25, 26, 27, 27, 28, 29, 30,
       31, 32, 33, 34, 35, 36, 37, 39, 40, 41, 42, 44,
       45, 47, 48, 50, 51, 53, 54, 56, 58, 60, 62, 64,
       66, 68, 70, 72, 74, 77, 79, 82, 84, 87, 90, 93,
       96, 99, 102, 105, 108, 112, 115, 119, 123, 127, 131, 135,
       139, 143, 148, 153, 158, 163, 168, 173, 178, 184, 190, 196,
       202, 209, 215, 222, 229, 236, 244, 252, 260, 268, 276, 285,
       294, 304, 313, 323, 333, 344, 355, 366, 378, 390, 402, 415,
       428, 442, 456, 470, 485, 501, 516, 533, 550, 567, 585, 604,
       623, 643, 663, 684, 706, 728, 751, 775, 800, 825, 851, 879,
       906, 935, 965, 995, 1027, 1060, 1093, 1128, 1164, 1201, 1239, 1278,
       1319, 1361, 1404, 1448, 1494, 1542, 1591, 1641, 1693, 1747, 1803, 1860,
       1919, 1980, 2043, 2107, 2174, 2243, 2315, 2388, 2464, 2542, 2623, 2706,
       2792, 2881, 2972, 3066, 3164, 3264, 3368, 3475, 3585, 3699, 3816, 3937,
       4062, 4191, 4324, 4461, 4603, 4749, 4900, 5056, 5216, 5382, 5552, 5729,
       5911, 6098, 6292, 6491, 6697, 6910, 7129, 7356, 7589, 7830, 8079, 8335,
       8600, 8873, 9154, 9445, 9745, 10054, 10373, 10703, 11042, 11393, 11754, 12128,
       12513, 12910, 13320, 13742, 14179, 14629, 15093, 15572, 16066, 16576, 17103, 17645,
       18206, 18784, 19380, 19995, 20630, 21285, 21960, 22657, 23376, 24119, 24884, 25674,
       26489, 27330, 28197, 29093, 30016, 30969, 31952 >>

exp(v) ==
    IF IsNaN(v) THEN NaN
    ELSE IF v = PInf THEN PInf
    ELSE IF v = NInf THEN 0
    ELSE IF v > ExpMax THEN PInf
    ELSE IF v < ExpMin THEN 0
    ELSE ExpTab[v - ExpMin + 1]

\* sqrt(v/Scale)*Scale rounded to the nearest unit, v finite and >= 0
SqrtUp(m, r) == IF m - r * r > r THEN r + 1 ELSE r

Sqrt(v) ==
    SqrtUp(v * Scale,
           CHOOSE k \in 0..(v + Scale) :
               k * k <= v * Scale /\ (k + 1) * (k + 1) > v * Scale)

\* C pow(base, e) for the exponents the model draws: 0, 1/2, 1, 2, -1
pow(base, e) ==
    IF e = 0 \/ base = One THEN One
    ELSE IF IsNaN(base) \/ IsNaN(e) THEN NaN
    ELSE IF e = One THEN base
    ELSE IF e = 2 * One THEN Mul(base, base)
    ELSE IF e = -One THEN Div(One, base)
    ELSE IF e = One \div 2
         THEN (IF base = PInf \/ base = NInf THEN PInf
               ELSE IF base < 0 THEN NaN
               ELSE Sqrt(base))
    ELSE NaN

-----------------------------------------------------------------------------
(* integrands: integration_fns.cpp *)

StrExp(t1, lambda1, beta1, probelife) ==
    [cls |-> "StrExp", lambda |-> lambda1, beta |-> beta1,
     lifetime |-> probelife, t |-> t1]

StrExp_call(f, tprime) ==
    Mul(exp(Div(Sub(tprime, f.t), f.lifetime)),
        exp(Neg(pow(Mul(Sub(f.t, tprime), f.lambda), f.beta))))

MixedStrExp(t1, lambda11, beta11, lambda21, beta21, alpha1, probelife) ==
    [cls |-> "MixedStrExp", lambda1 |-> lambda11, beta1 |-> beta11,
     lambda2 |-> lambda21, beta2 |-> beta21, alpha |-> alpha1,
     lifetime |-> probelife, t |-> t1]

\* mutant of MixedStrExp_call: the two weights are exchanged
MixedStrExp_call_weightsSwapped(f, tprime) ==
    Mul(exp(Div(Sub(tprime, f.t), f.lifetime)),
        Add(Mul(Sub(One, f.alpha),
                exp(Neg(pow(Mul(Sub(f.t, tprime), f.lambda1), f.beta1)))),
            Mul(f.alpha, exp(Neg(pow(Mul(Sub(f.t, tprime), f.lambda2), f.beta2))))))

\* mutant of MixedStrExp_call: the second weight is alpha instead of 1-alpha
MixedStrExp_call_sameWeight(f, tprime) ==
    Mul(exp(Div(Sub(tprime, f.t), f.lifetime)),
        Add(Mul(f.alpha, exp(Neg(pow(Mul(Sub(f.t, tprime), f.lambda1), f.beta1)))),
            Mul(f.alpha, exp(Neg(pow(Mul(Sub(f.t, tprime), f.lambda2), f.beta2))))))

\* mutant of MixedStrExp_call: the second weight is alpha-1 instead of 1-alpha
MixedStrExp_call_negativeWeight(f, tprime) ==
    Mul(exp(Div(Sub(tprime, f.t), f.lifetime)),
        Add(Mul(f.alpha, exp(Neg(pow(Mul(Sub(f.t, tprime), f.lambda1), f.beta1)))),
            Mul(Sub(f.alpha, One),
                exp(Neg(pow(Mul(Sub(f.t, tprime), f.lambda2), f.beta2))))))

MixedStrExp_call(f, tprime) ==
    Mul(exp(Div(Sub(tprime, f.t), f.lifetime)),
        Add(Mul(f.alpha, exp(Neg(pow(Mul(Sub(f.t, tprime), f.lambda1), f.beta1)))),
            Mul(Sub(One, f.alpha),
                exp(Neg(pow(Mul(Sub(f.t, tprime), f.lambda2), f.beta2))))))

\* f(tprime) for the function object handed to the integrator
Call(f, tprime) ==
    IF f.cls = "StrExp" THEN StrExp_call(f, tprime) ELSE MixedStrExp_call(f, tprime)

-----------------------------------------------------------------------------
(* quadrature: DEIntegrator<T>::Integrate(f, a, b, tol).  Interior          *)
(* abscissas on a hierarchy of levels; level L adds the odd multiples of    *)
(* (b-a)/2^(L+1), the estimate of a level is step * (sum of all samples).   *)

MaxLevel == 2
Tol == 1

Pow2(k) == 2 ^ k

Abscissa(a, b, level, k) == a + RoundDiv((b - a) * k, Pow2(level + 1))

\* mutant of Finite0: a non-finite sample is added as it is
Finite0_keepsNonFinite(v) == v

\* a sample outside the finite range or with a non-finite value adds zero
Finite0(v) == IF IsFinite(v) THEN v ELSE 0

Contribution(f, xx) == IF IsFinite(xx) THEN Finite0(Call(f, xx)) ELSE 0

\* the sum of the samples a level adds: the odd multiples k = 2j-1, j = 1..2^level
NewContribution(f, a, b, level) ==
    LET acc[j \in 0..Pow2(level)] ==
            IF j = 0 THEN 0
            ELSE Add(acc[j - 1], Contribution(f, Abscissa(a, b, level, 2 * j - 1)))
    IN  acc[Pow2(level)]

Shift(w, level) == IF IsFinite(w) THEN RoundDiv(w, Pow2(level + 1)) ELSE w

Estimate(a, b, level, sum) == Shift(Mul(sum, b - a), level)

Converged(est, prev) == IsFinite(est) /\ IsFinite(prev) /\ Abs(est - prev) < Tol

\* the state of the refinement loop after a level
LevelState(level, sum, est, stop) ==
    [level |-> level, sum |-> sum, est |-> est, stop |-> stop]

\* mutant of AfterLevel: the first level already counts as converged
AfterLevel_stopsAtFirst(a, b, level, sum, prev) ==
    IF level = 0
    THEN LevelState(0, sum, Estimate(a, b, 0, sum), TRUE)
    ELSE LevelState(level, sum, Estimate(a, b, level, sum),
                    Converged(Estimate(a, b, level, sum), prev.est))

AfterLevel(a, b, level, sum, prev) ==
    IF level = 0
    THEN LevelState(0, sum, Estimate(a, b, 0, sum), FALSE)
    ELSE LevelState(level, sum, Estimate(a, b, level, sum),
                    Converged(Estimate(a, b, level, sum), prev.est))

\* the refinement loop: level 0, then level by level until the estimate moved
\* by less than Tol or MaxLevel is reached; lev[L] is the loop's state after
\* level L (unchanged once the loop has stopped)
Levels(f, a, b) ==
    LET lev[L \in 0..MaxLevel] ==
            IF L = 0
            THEN AfterLevel(a, b, 0, NewContribution(f, a, b, 0), <<>>)
            ELSE IF lev[L - 1].stop THEN lev[L - 1]
            ELSE AfterLevel(a, b, L,
                            Add(lev[L - 1].sum, NewContribution(f, a, b, L)),
                            lev[L - 1])
    IN  lev[MaxLevel]

IntegrateCore(f, a, b) == Levels(f, a, b).est

\* mutant of Integrate: a tolerance test not met at the last level is an error
Integrate_failsUnconverged(f, a, b) ==
    IF ~IsFinite(a) \/ ~IsFinite(b) \/ a > b
    THEN [err |-> "InvalidBounds", val |-> NaN]
    ELSE IF a = b THEN [err |-> "", val |-> 0]
    ELSE IF Levels(f, a, b).stop THEN [err |-> "", val |-> IntegrateCore(f, a, b)]
    ELSE [err |-> "NoConvergence", val |-> NaN]

\* mutant of Integrate: the bounds are not inspected
Integrate_noBoundsCheck(f, a, b) ==
    IF a = b THEN [err |-> "", val |-> 0]
    ELSE [err |-> "", val |-> IntegrateCore(f, a, b)]

Integrate(f, a, b) ==
    IF ~IsFinite(a) \/ ~IsFinite(b) \/ a > b
    THEN [err |-> "InvalidBounds", val |-> NaN]
    ELSE IF a = b THEN [err |-> "", val |-> 0]
    ELSE [err |-> "", val |-> IntegrateCore(f, a, b)]

\* the integration objects: the constructor runs the quadrature on [0, tprime]
Integral(f, a, b, r) == [f |-> f, a |-> a, b |-> b, err |-> r.err, out |-> r.val]

IntegralStrExp(t, tprime, l, b, lf) ==
    Integral(StrExp(t, l, b, lf), 0, tprime,
             Integrate(StrExp(t, l, b, lf), 0, tprime))

IntegralMixedStrExp(t, tprime, l1, b1, l2, b2, a, lf) ==
    Integral(MixedStrExp(t, l1, b1, l2, b2, a, lf), 0, tprime,
             Integrate(MixedStrExp(t, l1, b1, l2, b2, a, lf), 0, tprime))

-----------------------------------------------------------------------------
(* Integrator: integrator.pyx *)

MaxLen == 2
MaxLive == 2

Lifes == {0, 64}
PulseLens == {-32, 0, 32}
Times == {-32, 0, 1, 16, 32, 64}
\* (Lambda, Beta) of one stretched exponential: beta 0.5 and 1 inside (0, 1],
\* a negative rate, and beta 2 outside the documented range
Components == {<<32, 16>>, <<32, 32>>, <<-32, 16>>, <<32, 64>>}
\* (Lambda2, Beta2) of the second component of a mixed call
SecondComponents == {<<32, 32>>, <<-32, 16>>}
\* 0, 0.5, 1 and 2 (outside [0, 1])
Alphas == {0, 16, 32, 64}
Amps == {64}
Offsets == {0, 32}

TimeArrays == UNION {[1..k -> Times] : k \in 0..MaxLen}

\* np.zeros(n)
zeros(k) == [j \in 1..k |-> 0]

\* mutant of Store: the value lands one position early
Store_offByOne(arr, idx, v) == [arr EXCEPT ![idx] = v]

\* out_arr[i] = v, i counted from 0 as in the source
Store(arr, idx, v) == [arr EXCEPT ![idx + 1] = v]

\* mutant of Prefac: the "1 -" of the normalization is lost
Prefac_noComplement(t, lf) == Mul(lf, exp(Div(Neg(t), lf)))

\* prefac = life*(1.-exp(-t/life)), life # 0
Prefac(t, lf) == Mul(lf, Sub(One, exp(Div(Neg(t), lf))))

\* mutant of DuringOut: the offset is scaled with the integral
DuringOut_offsetInside(amp, xout, prefac, offset) ==
    Div(Add(Mul(amp, xout), offset), prefac)

\* out = amp*x.out/prefac+offset
DuringOut(amp, xout, prefac, offset) == Add(Div(Mul(amp, xout), prefac), offset)

\* mutant of AfterOut: the decay factor uses t alone
AfterOut_decayFromZero(amp, xout, prefac, t, pl, lf, offset) ==
    Add(Mul(Mul(Div(amp, prefac), xout), exp(Div(t, lf))), offset)

\* out = amp/prefac*x.out*exp((t-pulse_len)/life)+offset
AfterOut(amp, xout, prefac, t, pl, lf, offset) ==
    Add(Mul(Mul(Div(amp, prefac), xout), exp(Div(Sub(t, pl), lf))), offset)

\* mutant of MixedDuringOut: multiplies by prefac
MixedDuringOut_timesPrefac(amp, xout, prefac) == Mul(Mul(amp, xout), prefac)

\* out = amp*x.out/prefac
MixedDuringOut(amp, xout, prefac) == Div(Mul(amp, xout), prefac)

\* out = amp/prefac*x.out*exp((t-pulse_len)/life)
MixedAfterOut(amp, xout, prefac, t, pl, lf) ==
    Mul(Mul(Div(amp, prefac), xout), exp(Div(Sub(t, pl), lf)))

\* t<pulse_len selects the upper integration bound
Bound(t, pl) == IF Lt(t, pl) THEN t ELSE pl

\* what a pass of the loop produces: an error raised, or the value for
\* out_arr[i]; obj holds the integration object the pass constructed, if any
Raised(e, obj) == [err |-> e, out |-> 0, obj |-> obj]
Value(v, obj) == [err |-> "", out |-> v, obj |-> obj]

\* mutant of pulsed_str_exp_out: the during-pulse branch includes t = pulse_len
pulsed_str_exp_out_boundaryDuring(t, amp, offset, lf, pl, prefac, xo) ==
    IF xo.err # "" THEN Raised(xo.err, <<xo>>)
    ELSE IF Lt(t, pl) \/ t = pl
         THEN Value(DuringOut(amp, xo.out, prefac, offset), <<xo>>)
    ELSE Value(AfterOut(amp, xo.out, prefac, t, pl, lf, offset), <<xo>>)

\* lines 86-97 of pulsed_str_exp with the constructed object xo
pulsed_str_exp_out(t, amp, offset, lf, pl, prefac, xo) ==
    IF xo.err # "" THEN Raised(xo.err, <<xo>>)
    ELSE IF Lt(t, pl) THEN Value(DuringOut(amp, xo.out, prefac, offset), <<xo>>)
    ELSE Value(AfterOut(amp, xo.out, prefac, t, pl, lf, offset), <<xo>>)

\* mutant of pulsed_str_exp_branch: the special case lacks its continue
pulsed_str_exp_branch_noContinue(t, Lambda, Beta, amp, offset, lf, pl, prefac) ==
    IF prefac = 0
    THEN Value(PInf, <<IntegralStrExp(t, Bound(t, pl), Lambda, Beta, lf)>>)
    ELSE pulsed_str_exp_out(t, amp, offset, lf, pl, prefac,
                            IntegralStrExp(t, Bound(t, pl), Lambda, Beta, lf))

\* lines 81-97 with the normalization prefac
pulsed_str_exp_branch(t, Lambda, Beta, amp, offset, lf, pl, prefac) ==
    IF prefac = 0 THEN Value(PInf, <<>>)
    ELSE pulsed_str_exp_out(t, amp, offset, lf, pl, prefac,
                            IntegralStrExp(t, Bound(t, pl), Lambda, Beta, lf))

\* mutant of pulsed_str_exp_body: beta is checked against (0, 1]
pulsed_str_exp_body_checksBeta(t, Lambda, Beta, amp, offset, lf, pl) ==
    IF Beta <= 0 \/ Beta > One THEN Raised("ValueError", <<>>)
    ELSE IF lf = 0 THEN Raised("ZeroDivisionError", <<>>)
    ELSE pulsed_str_exp_branch(t, Lambda, Beta, amp, offset, lf, pl, Prefac(t, lf))

\* One pass of the loop body of pulsed_str_exp for the time t.  life is a
\* Python object there, so -t/life raises ZeroDivisionError when life is 0.
pulsed_str_exp_body(t, Lambda, Beta, amp, offset, lf, pl) ==
    IF lf = 0 THEN Raised("ZeroDivisionError", <<>>)
    ELSE pulsed_str_exp_branch(t, Lambda, Beta, amp, offset, lf, pl, Prefac(t, lf))

mixed_pulsed_str_exp_out(t, amp, lf, pl, prefac, xo) ==
    IF xo.err # "" THEN Raised(xo.err, <<xo>>)
    ELSE IF Lt(t, pl) THEN Value(MixedDuringOut(amp, xo.out, prefac), <<xo>>)
    ELSE Value(MixedAfterOut(amp, xo.out, prefac, t, pl, lf), <<xo>>)

mixed_pulsed_str_exp_branch(t, Lambda1, Beta1, Lambda2, Beta2, alpha, amp, lf, pl, prefac) ==
    IF prefac = 0 THEN Value(PInf, <<>>)
    ELSE mixed_pulsed_str_exp_out(t, amp, lf, pl, prefac,
                                  IntegralMixedStrExp(t, Bound(t, pl), Lambda1, Beta1,
                                                      Lambda2, Beta2, alpha, lf))

mixed_pulsed_str_exp_body(t, Lambda1, Beta1, Lambda2, Beta2, alpha, amp, lf, pl) ==
    IF lf = 0 THEN Raised("ZeroDivisionError", <<>>)
    ELSE mixed_pulsed_str_exp_branch(t, Lambda1, Beta1, Lambda2, Beta2, alpha, amp,
                                     lf, pl, Prefac(t, lf))

\* the quadrature requests of the current call, each tagged with its element
Logged(objs, idx) == [k \in 1..Len(objs) |-> [elem |-> idx, req |-> objs[k]]]

\* the frame of an invocation that has not been made
NoCall ==
    [pc |-> "idle", op |-> "", time |-> <<>>, par |-> [amp |-> 0], n |-> 0, i |-> 0,
     out_arr |-> <<>>, x |-> <<>>, reqs |-> <<>>, err |-> ""]

Init ==
    /\ life = 0
    /\ pulse_len = 0
    /\ pc = "new"
    /\ op = ""
    /\ time = <<>>
    /\ par = [amp |-> 0]
    /\ n = 0
    /\ i = 0
    /\ out_arr = <<>>
    /\ x = <<>>
    /\ reqs = <<>>
    /\ live = 0
    /\ err = ""
    /\ other = NoCall

\* __init__(self, lifetime, pulse_len)
Integrator_init ==
    /\ pc = "new"
    /\ \E lifetime \in Lifes, pl \in PulseLens :
          /\ life' = lifetime
          /\ pulse_len' = pl
    /\ pc' = "idle"
    /\ UNCHANGED <<op, time, par, n, i, out_arr, x, reqs, live, err, other>>

\* mutant of Enter: the entry code stores into the evaluator's fields
Enter_writesFields(name, tm, p) ==
    /\ live + Len(tm) <= MaxLive
    /\ op' = name
    /\ time' = tm
    /\ par' = p
    /\ n' = Len(tm)
    /\ i' = 0
    /\ out_arr' = zeros(Len(tm))
    /\ x' = <<>>
    /\ reqs' = <<>>
    /\ err' = ""
    /\ pc' = "loop"
    /\ life' = life
    /\ pulse_len' = life
    /\ UNCHANGED <<live, other>>

\* entry of a call: the locals n, i, out_arr
Enter(name, tm, p) ==
    /\ live + Len(tm) <= MaxLive
    /\ op' = name
    /\ time' = tm
    /\ par' = p
    /\ n' = Len(tm)
    /\ i' = 0
    /\ out_arr' = zeros(Len(tm))
    /\ x' = <<>>
    /\ reqs' = <<>>
    /\ err' = ""
    /\ pc' = "loop"
    /\ UNCHANGED <<life, pulse_len, live, other>>

Pass_carriesOut(r) ==
    /\ reqs' = reqs \o Logged(r.obj, i)
    /\ IF r.err # ""
       THEN /\ pc' = "error"
            /\ err' = r.err
            /\ UNCHANGED <<i, out_arr, x, live>>
       ELSE /\ out_arr' = Store(out_arr, i,
                               Add(r.out, IF i = 0 THEN 0 ELSE out_arr[i]))
            /\ i' = i + 1
            /\ x' = IF r.obj = <<>> THEN x ELSE r.obj
            /\ live' = live + Len(r.obj)
            /\ UNCHANGED <<pc, err>>
    /\ UNCHANGED <<life, pulse_len, op, time, par, n, other>>

\* mutant of Pass: the result is also stored into the input array
Pass_inPlace(r) ==
    /\ reqs' = reqs \o Logged(r.obj, i)
    /\ IF r.err # ""
       THEN /\ pc' = "error"
            /\ err' = r.err
            /\ UNCHANGED <<i, out_arr, x, live, time>>
       ELSE /\ out_arr' = Store(out_arr, i, r.out)
            /\ time' = Store(time, i, r.out)
            /\ i' = i + 1
            /\ x' = IF r.obj = <<>> THEN x ELSE r.obj
            /\ live' = live + Len(r.obj)
            /\ UNCHANGED <<pc, err>>
    /\ UNCHANGED <<life, pulse_len, op, par, n, other>>

\* one pass of the for loop with the outcome r of its body
Pass(r) ==
    /\ reqs' = reqs \o Logged(r.obj, i)
    /\ IF r.err # ""
       THEN /\ pc' = "error"
            /\ err' = r.err
            /\ UNCHANGED <<i, out_arr, x, live>>
       ELSE /\ out_arr' = Store(out_arr, i, r.out)
            /\ i' = i + 1
            /\ x' = IF r.obj = <<>> THEN x ELSE r.obj
            /\ live' = live + Len(r.obj)
            /\ UNCHANGED <<pc, err>>
    /\ UNCHANGED <<life, pulse_len, op, time, par, n, other>>

\* mutant of Return: the loop is left one pass after the last element
Return_pastEnd(name) ==
    /\ pc = "loop"
    /\ op = name
    /\ i = n + 1
    /\ pc' = "done"
    /\ UNCHANGED <<life, pulse_len, op, time, par, n, i, out_arr, x, reqs, live, err, other>>

\* return out_arr
Return(name) ==
    /\ pc = "loop"
    /\ op = name
    /\ i = n
    /\ pc' = "done"
    /\ UNCHANGED <<life, pulse_len, op, time, par, n, i, out_arr, x, reqs, live, err, other>>

pulsed_str_exp ==
    /\ pc = "idle"
    /\ \E tm \in TimeArrays, c \in Components, amp \in Amps, offset \in Offsets :
           Enter("pulsed_str_exp", tm,
              [Lambda |-> c[1], Beta |-> c[2], amp |-> amp, offset |-> offset])

pulsed_str_exp_loop ==
    /\ pc = "loop"
    /\ op = "pulsed_str_exp"
    /\ i < n
    /\ Pass(pulsed_str_exp_body(time[i + 1], par.Lambda, par.Beta, par.amp,
                                par.offset, life, pulse_len))

pulsed_str_exp_return == Return("pulsed_str_exp")

mixed_pulsed_str_exp ==
    /\ pc = "idle"
    /\ \E tm \in TimeArrays, c1 \in Components, c2 \in SecondComponents,
          alpha \in Alphas, amp \in Amps :
           Enter("mixed_pulsed_str_exp", tm,
              [Lambda1 |-> c1[1], Beta1 |-> c1[2], Lambda2 |-> c2[1],
               Beta2 |-> c2[2], alpha |-> alpha, amp |-> amp])

mixed_pulsed_str_exp_loop ==
    /\ pc = "loop"
    /\ op = "mixed_pulsed_str_exp"
    /\ i < n
    /\ Pass(mixed_pulsed_str_exp_body(time[i + 1], par.Lambda1, par.Beta1,
                                      par.Lambda2, par.Beta2, par.alpha, par.amp,
                                      life, pulse_len))

mixed_pulsed_str_exp_return == Return("mixed_pulsed_str_exp")

\* the caller takes the returned array or the raised error; the locals of the
\* call are gone and the evaluator is ready for the next call
Unwind ==
    /\ pc \in {"done", "error"}
    /\ pc' = "idle"
    /\ op' = ""
    /\ time' = <<>>
    /\ par' = [amp |-> 0]
    /\ n' = 0
    /\ i' = 0
    /\ out_arr' = <<>>
    /\ x' = <<>>
    /\ reqs' = <<>>
    /\ err' = ""
    /\ UNCHANGED <<life, pulse_len, live, other>>

Next ==
    \/ Integrator_init
    \/ pulsed_str_exp
    \/ pulsed_str_exp_loop
    \/ pulsed_str_exp_return
    \/ mixed_pulsed_str_exp
    \/ mixed_pulsed_str_exp_loop
    \/ mixed_pulsed_str_exp_return
    \/ Unwind

Spec == Init /\ [][Next]_vars

-----------------------------------------------------------------------------
(* two invocations on one evaluator: the first in the variables of the call,
   the second in the frame other; each loop pass is one step, so the passes of
   the two interleave in every order *)

\* the loop body of the method o with the arguments p at the time t
FrameBody(o, p, t) ==
    IF o = "pulsed_str_exp"
    THEN pulsed_str_exp_body(t, p.Lambda, p.Beta, p.amp, p.offset, life, pulse_len)
    ELSE mixed_pulsed_str_exp_body(t, p.Lambda1, p.Beta1, p.Lambda2, p.Beta2,
                                   p.alpha, p.amp, life, pulse_len)

ConcTimes == {-32, 16}
ConcTimeArrays == UNION {[1..k -> ConcTimes] : k \in 0..MaxLen}
ConcCalls ==
    {[op |-> "pulsed_str_exp",
      par |-> [Lambda |-> 32, Beta |-> 16, amp |-> 64, offset |-> 32]],
     [op |-> "mixed_pulsed_str_exp",
      par |-> [Lambda1 |-> 32, Beta1 |-> 16, Lambda2 |-> 32, Beta2 |-> 32,
               alpha |-> 16, amp |-> 64]]}

\* Integrator(2.0, 1.0), constructed, no call made yet
InitConc ==
    /\ life = 2 * Scale
    /\ pulse_len = Scale
    /\ pc = "idle"
    /\ op = ""
    /\ time = <<>>
    /\ par = [amp |-> 0]
    /\ n = 0
    /\ i = 0
    /\ out_arr = <<>>
    /\ x = <<>>
    /\ reqs = <<>>
    /\ live = 0
    /\ err = ""
    /\ other = NoCall

\* the first thread calls a method
Conc_call ==
    /\ pc = "idle"
    /\ \E tm \in ConcTimeArrays, c \in ConcCalls : Enter(c.op, tm, c.par)

\* entry of the second invocation: its own n, i, out_arr
OtherEnter(name, tm, p) ==
    /\ other' = [pc |-> "loop", op |-> name, time |-> tm, par |-> p, n |-> Len(tm),
                 i |-> 0, out_arr |-> zeros(Len(tm)), x |-> <<>>, reqs |-> <<>>,
                 err |-> ""]
    /\ UNCHANGED <<life, pulse_len, pc, op, time, par, n, i, out_arr, x, reqs, live, err>>

\* mutant of OtherPass: out is one accumulator shared by the invocations
OtherPass_sharedOut(r) ==
    /\ IF r.err # ""
       THEN /\ other' = [other EXCEPT !.pc = "error", !.err = r.err,
                                      !.reqs = @ \o Logged(r.obj, other.i)]
            /\ UNCHANGED <<live, out_arr>>
       ELSE /\ other' = [other EXCEPT !.out_arr = Store(@, other.i, r.out),
                                      !.i = @ + 1,
                                      !.x = IF r.obj = <<>> THEN @ ELSE r.obj,
                                      !.reqs = @ \o Logged(r.obj, other.i)]
            /\ live' = live + Len(r.obj)
            /\ out_arr' = IF other.i < Len(out_arr)
                          THEN Store(out_arr, other.i, r.out) ELSE out_arr
    /\ UNCHANGED <<life, pulse_len, pc, op, time, par, n, i, x, reqs, err>>

\* one pass of the for loop of the second invocation with the outcome r of its
\* body: it writes its own locals and allocates from the common heap
OtherPass(r) ==
    /\ IF r.err # ""
       THEN /\ other' = [other EXCEPT !.pc = "error", !.err = r.err,
                                      !.reqs = @ \o Logged(r.obj, other.i)]
            /\ UNCHANGED live
       ELSE /\ other' = [other EXCEPT !.out_arr = Store(@, other.i, r.out),
                                      !.i = @ + 1,
                                      !.x = IF r.obj = <<>> THEN @ ELSE r.obj,
                                      !.reqs = @ \o Logged(r.obj, other.i)]
            /\ live' = live + Len(r.obj)
    /\ UNCHANGED <<life, pulse_len, pc, op, time, par, n, i, out_arr, x, reqs, err>>

\* the second thread calls a method
Other_call ==
    /\ other.pc = "idle"
    /\ \E tm \in ConcTimeArrays, c \in ConcCalls : OtherEnter(c.op, tm, c.par)

Other_loop ==
    /\ other.pc = "loop"
    /\ other.i < other.n
    /\ OtherPass(FrameBody(other.op, other.par, other.time[other.i + 1]))

\* return out_arr of the second invocation
Other_return ==
    /\ other.pc = "loop"
    /\ other.i = other.n
    /\ other' = [other EXCEPT !.pc = "done"]
    /\ UNCHANGED <<life, pulse_len, pc, op, time, par, n, i, out_arr, x, reqs, live, err>>

NextConc ==
    \/ Conc_call
    \/ pulsed_str_exp_loop
    \/ pulsed_str_exp_return
    \/ mixed_pulsed_str_exp_loop
    \/ mixed_pulsed_str_exp_return
    \/ Other_call
    \/ Other_loop
    \/ Other_return

SpecConc == InitConc /\ [][NextConc]_vars

-----------------------------------------------------------------------------
(* one integration object constructed from Cython: x = new IntegralStrExp(...)
   or new IntegralMixedStrExp(...), declared except +, for arguments drawn
   from bounded sets; par holds the arguments *)

QuadTimes == {16, 32, 64}
QuadUppers == {NInf, -32, -1, 0, 1, 16, 32, 64, PInf, NaN}
QuadLifes == {32, 64}
QuadAlphas == {16, 64}

QuadArgs ==
    {[cls |-> "IntegralStrExp", t |-> t, tprime |-> tp, l |-> c[1], b |-> c[2],
      lf |-> lf] :
        t \in QuadTimes, tp \in QuadUppers, c \in Components, lf \in QuadLifes}
    \cup
    {[cls |-> "IntegralMixedStrExp", t |-> t, tprime |-> tp, l1 |-> c[1],
      b1 |-> c[2], l2 |-> 32, b2 |-> 32, a |-> al, lf |-> 64] :
        t \in QuadTimes, tp \in QuadUppers, c \in Components, al \in QuadAlphas}

InitQuad ==
    /\ life = 0
    /\ pulse_len = 0
    /\ pc = "quad"
    /\ op = ""
    /\ time = <<>>
    /\ par \in QuadArgs
    /\ n = 0
    /\ i = 0
    /\ out_arr = <<>>
    /\ x = <<>>
    /\ reqs = <<>>
    /\ live = 0
    /\ err = ""
    /\ other = NoCall

\* what the constructor call with the arguments p builds
Construct(p) ==
    IF p.cls = "IntegralStrExp"
    THEN IntegralStrExp(p.t, p.tprime, p.l, p.b, p.lf)
    ELSE IntegralMixedStrExp(p.t, p.tprime, p.l1, p.b1, p.l2, p.b2, p.a, p.lf)

\* x = new T(...) under except +: a C++ exception of the constructor becomes
\* the Python exception of the statement and no object is left
New(obj) ==
    /\ reqs' = reqs \o Logged(<<obj>>, 0)
    /\ IF obj.err # ""
       THEN /\ pc' = "quad_error"
            /\ err' = obj.err
            /\ UNCHANGED <<x, live>>
       ELSE /\ pc' = "quad_done"
            /\ x' = <<obj>>
            /\ live' = live + 1
            /\ UNCHANGED err
    /\ UNCHANGED <<life, pulse_len, op, time, par, n, i, out_arr, other>>

New_Integral ==
    /\ pc = "quad"
    /\ New(Construct(par))

NextQuad == New_Integral

SpecQuad == InitQuad /\ [][NextQuad]_vars

-----------------------------------------------------------------------------
(* properties *)

IsSingle == op = "pulsed_str_exp"
IsMixed == op = "mixed_pulsed_str_exp"
InCall == pc \in {"loop", "done", "error"}

\* what the loop body yields for the time t under the current call's parameters
Body(t) ==
    IF IsSingle
    THEN pulsed_str_exp_body(t, par.Lambda, par.Beta, par.amp, par.offset,
                             life, pulse_len)
    ELSE mixed_pulsed_str_exp_body(t, par.Lambda1, par.Beta1, par.Lambda2,
                                   par.Beta2, par.alpha, par.amp, life, pulse_len)

\* the quadrature requests made for element j (1-based) of the current call
RequestsOf(j) == {k \in 1..Len(reqs) : reqs[k].elem = j - 1}
TheRequest(j) == reqs[CHOOSE k \in RequestsOf(j) : TRUE].req

\* the integrand the current call builds for observation time t
KernelAt(t) ==
    IF IsSingle THEN StrExp(t, par.Lambda, par.Beta, life)
    ELSE MixedStrExp(t, par.Lambda1, par.Beta1, par.Lambda2, par.Beta2, par.alpha, life)

\* C1: in a call, the output array has the length of the time array, the
\* positions already passed hold the value computed from the time at the same
\* position and the others are still zero; the returned array is complete.
C1_OutputParallelToTime ==
    InCall =>
        /\ Len(out_arr) = Len(time)
        /\ n = Len(time)
        /\ i <= n
        /\ pc = "done" => i = n
        /\ \A j \in 1..n :
              out_arr[j] = IF j <= i THEN Body(time[j]).out ELSE 0

C1_Witness ==
    /\ pc = "done"
    /\ n = 2
    /\ time[1] # time[2]
    /\ out_arr[1] # out_arr[2]
    /\ IsFinite(out_arr[1]) /\ out_arr[1] # 0
    /\ IsFinite(out_arr[2]) /\ out_arr[2] # 0

ValidConfig == life > 0 /\ pulse_len >= 0

\* C2: on an evaluator with life > 0 and pulse_len >= 0, every element whose
\* time is 0 gets the output +infinity, and no call ends in an error at such an
\* element.
C2_ZeroTimeGivesInfinity ==
    (InCall /\ ValidConfig) =>
        /\ \A j \in 1..i : time[j] = 0 => out_arr[j] = PInf
        /\ pc = "error" => time[i + 1] # 0

C2_Witness ==
    /\ pc = "done"
    /\ ValidConfig
    /\ n = 2
    /\ time[1] = 0 /\ out_arr[1] = PInf
    /\ time[2] # 0 /\ IsFinite(out_arr[2])

\* prefac = life * (1 - exp(-t/life)), written out from the claim
ClaimPrefac(t) == Mul(life, Sub(One, exp(Div(Neg(t), life))))

\* element j made exactly one request, with the call's kernel at observation
\* time time[j] and the bounds [0, b]
OneRequest(j, b) ==
    /\ Cardinality(RequestsOf(j)) = 1
    /\ TheRequest(j).f = KernelAt(time[j])
    /\ TheRequest(j).a = 0
    /\ TheRequest(j).b = b

\* C3: single-component call, element with prefac # 0 and t < pulse_len: one
\* quadrature request with the single kernel at t and the bounds [0, t]; the
\* output is amp * I / prefac + offset, I being the value the request returned.
C3_SingleDuringPulse ==
    (InCall /\ IsSingle /\ life # 0) =>
        /\ \A j \in 1..i :
              (ClaimPrefac(time[j]) # 0 /\ Lt(time[j], pulse_len)) =>
                  /\ OneRequest(j, time[j])
                  /\ TheRequest(j).f.cls = "StrExp"
                  /\ out_arr[j] =
                        Add(Div(Mul(par.amp, TheRequest(j).out), ClaimPrefac(time[j])),
                            par.offset)
        /\ (pc = "error" /\ ClaimPrefac(time[i + 1]) # 0 /\ Lt(time[i + 1], pulse_len)) =>
              OneRequest(i + 1, time[i + 1])

C3_Witness ==
    /\ pc = "done"
    /\ IsSingle
    /\ n >= 1
    /\ Lt(time[1], pulse_len)
    /\ ClaimPrefac(time[1]) # 0
    /\ par.offset # 0
    /\ Cardinality(RequestsOf(1)) = 1
    /\ TheRequest(1).out > 0
    /\ IsFinite(out_arr[1])
    /\ out_arr[1] # par.offset

\* C4: single-component call, element with prefac # 0 and not t < pulse_len:
\* one quadrature request with the single kernel at t (not at pulse_len) and the
\* bounds [0, pulse_len]; the output is
\* (amp / prefac) * I * exp((t - pulse_len)/life) + offset.
C4_SingleAfterPulse ==
    (InCall /\ IsSingle /\ life # 0) =>
        /\ \A j \in 1..i :
              (ClaimPrefac(time[j]) # 0 /\ ~Lt(time[j], pulse_len)) =>
                  /\ OneRequest(j, pulse_len)
                  /\ TheRequest(j).f.cls = "StrExp"
                  /\ TheRequest(j).f.t = time[j]
                  /\ out_arr[j] =
                        Add(Mul(Mul(Div(par.amp, ClaimPrefac(time[j])), TheRequest(j).out),
                                exp(Div(Sub(time[j], pulse_len), life))),
                            par.offset)
        /\ (pc = "error" /\ ClaimPrefac(time[i + 1]) # 0 /\ ~Lt(time[i + 1], pulse_len)) =>
              OneRequest(i + 1, pulse_len)

C4_Witness ==
    /\ pc = "done"
    /\ IsSingle
    /\ n >= 1
    /\ pulse_len > 0
    /\ time[1] > pulse_len
    /\ ClaimPrefac(time[1]) # 0
    /\ par.offset # 0
    /\ Cardinality(RequestsOf(1)) = 1
    /\ TheRequest(1).b = pulse_len
    /\ TheRequest(1).f.t = time[1]
    /\ TheRequest(1).out > 0
    /\ IsFinite(out_arr[1])
    /\ out_arr[1] # par.offset

\* C5: mixed call, element with prefac # 0: one quadrature request with the
\* two-component kernel at t and the bounds [0, t] when t < pulse_len, else
\* [0, pulse_len]; the output is amp * I / prefac in the first case and
\* (amp / prefac) * I * exp((t - pulse_len)/life) in the second, nothing added.
C5_MixedBranches ==
    (InCall /\ IsMixed /\ life # 0) =>
        \A j \in 1..i :
            ClaimPrefac(time[j]) # 0 =>
                /\ OneRequest(j, IF Lt(time[j], pulse_len) THEN time[j] ELSE pulse_len)
                /\ TheRequest(j).f.cls = "MixedStrExp"
                /\ out_arr[j] =
                      IF Lt(time[j], pulse_len)
                      THEN Div(Mul(par.amp, TheRequest(j).out), ClaimPrefac(time[j]))
                      ELSE Mul(Mul(Div(par.amp, ClaimPrefac(time[j])), TheRequest(j).out),
                               exp(Div(Sub(time[j], pulse_len), life)))

C5_Witness ==
    /\ pc = "done"
    /\ IsMixed
    /\ n = 2
    /\ par.alpha = One \div 2
    /\ Lt(time[1], pulse_len)
    /\ time[2] > pulse_len
    /\ ClaimPrefac(time[1]) # 0
    /\ Cardinality(RequestsOf(1)) = 1
    /\ Cardinality(RequestsOf(2)) = 1
    /\ IsFinite(out_arr[1]) /\ out_arr[1] > 0
    /\ IsFinite(out_arr[2]) /\ out_arr[2] > 0

\* evaluate_single(Lambda, Beta, amp, offset) on the current time array and
\* evaluator: the value per element, and the error it would end in
SingleOut(Lambda, Beta, amp, offset) ==
    [j \in 1..Len(time) |->
        pulsed_str_exp_body(time[j], Lambda, Beta, amp, offset, life, pulse_len).out]
SingleErr(t, Lambda, Beta, amp, offset) ==
    pulsed_str_exp_body(t, Lambda, Beta, amp, offset, life, pulse_len).err

\* the mixed call that returned (or failed at element i) agrees with the
\* single-component call of the parameters Lambda, Beta and offset 0
MixedAgreesWithSingle(Lambda, Beta) ==
    /\ pc = "done" => out_arr = SingleOut(Lambda, Beta, par.amp, 0)
    /\ pc = "error" => err = SingleErr(time[i + 1], Lambda, Beta, par.amp, 0)

\* C6 as stated: for every time array and all parameters, the mixed call with
\* alpha = 1 gives the sequence of the single call (Lambda1, Beta1, amp, 0).
C6_AlphaOneIsFirstComponent_AsStated ==
    (pc \in {"done", "error"} /\ IsMixed /\ par.alpha = One) =>
        MixedAgreesWithSingle(par.Lambda1, par.Beta1)

\* C6 amended: when Lambda2 >= 0 and every time is >= 0 (the second term
\* exp(-((t-t')*Lambda2)^Beta2) is then finite at every integration point), the
\* mixed call with alpha = 1 gives the sequence of the single call
\* (Lambda1, Beta1, amp, offset 0).
C6_AlphaOneIsFirstComponent ==
    (pc \in {"done", "error"} /\ IsMixed /\ par.alpha = One
       /\ par.Lambda2 >= 0 /\ \A j \in 1..n : time[j] >= 0) =>
        MixedAgreesWithSingle(par.Lambda1, par.Beta1)

C6_Witness ==
    /\ pc = "done"
    /\ IsMixed
    /\ par.alpha = One
    /\ par.Lambda2 >= 0
    /\ par.Beta2 # par.Beta1
    /\ n = 2
    /\ 0 < time[1] /\ time[1] < pulse_len /\ pulse_len < time[2]
    /\ IsFinite(out_arr[1]) /\ out_arr[1] > 0
    /\ IsFinite(out_arr[2]) /\ out_arr[2] > 0
    /\ out_arr = SingleOut(par.Lambda1, par.Beta1, par.amp, 0)
    /\ out_arr # SingleOut(par.Lambda2, par.Beta2, par.amp, 0)

\* C7 as stated: for every time array and all parameters, the mixed call with
\* alpha = 0 gives the sequence of the single call (Lambda2, Beta2, amp, 0).
C7_AlphaZeroIsSecondComponent_AsStated ==
    (pc \in {"done", "error"} /\ IsMixed /\ par.alpha = 0) =>
        MixedAgreesWithSingle(par.Lambda2, par.Beta2)

\* C7 amended: when Lambda1 >= 0 and every time is >= 0 (the first term
\* exp(-((t-t')*Lambda1)^Beta1) is then finite at every integration point), the
\* mixed call with alpha = 0 gives the sequence of the single call
\* (Lambda2, Beta2, amp, offset 0).
C7_AlphaZeroIsSecondComponent ==
    (pc \in {"done", "error"} /\ IsMixed /\ par.alpha = 0
       /\ par.Lambda1 >= 0 /\ \A j \in 1..n : time[j] >= 0) =>
        MixedAgreesWithSingle(par.Lambda2, par.Beta2)

C7_Witness ==
    /\ pc = "done"
    /\ IsMixed
    /\ par.alpha = 0
    /\ par.Lambda1 >= 0
    /\ par.Beta2 # par.Beta1
    /\ n = 2
    /\ 0 < time[1] /\ time[1] < pulse_len /\ pulse_len < time[2]
    /\ IsFinite(out_arr[1]) /\ out_arr[1] > 0
    /\ IsFinite(out_arr[2]) /\ out_arr[2] > 0
    /\ out_arr = SingleOut(par.Lambda2, par.Beta2, par.amp, 0)
    /\ out_arr # SingleOut(par.Lambda1, par.Beta1, par.amp, 0)

\* C8: no constructed evaluator has life <= 0 (construction with life <= 0
\* fails).
C8_ConstructedLifePositive == pc # "new" => life > 0

\* C9: no constructed evaluator has pulse_len < 0 (construction with
\* pulse_len < 0 fails).
C9_ConstructedPulseLenNonNegative == pc # "new" => pulse_len >= 0

\* C10: once the evaluator is constructed, no step of any call (entry, loop
\* pass, return, error, unwinding) changes life or pulse_len.
C10_ConfigurationNeverChanges ==
    [][pc # "new" => (life' = life /\ pulse_len' = pulse_len)]_vars

C10_Witness ==
    /\ pc = "error"
    /\ err = "InvalidBounds"
    /\ life = 2 * Scale
    /\ pulse_len = Scale
    /\ i = 0
    /\ live = 1

\* what a call with the same parameters on the same evaluator does for the
\* one-element sub-sequence <<t>>, from the outcome r of the loop body for t:
\* the error it raises, or the array it returns
AloneCall(r) ==
    IF r.err # "" THEN [err |-> r.err, out |-> <<>>]
    ELSE [err |-> "", out |-> Store(zeros(1), 0, r.out)]

\* position j holds the value of the one-element call a, as does every other
\* position with the same time
SameAsAlone(j, a) ==
    /\ a.err = ""
    /\ out_arr[j] = a.out[1]
    /\ \A k \in 1..i : time[k] = time[j] => out_arr[k] = out_arr[j]

\* C11: the value of an element depends only on its time, the parameters and
\* (life, pulse_len): each position passed holds the value the one-element
\* call for its time returns, equal times hold equal values wherever they
\* stand in the array, and a call fails at an element exactly with the error
\* the one-element call for that time raises.
C11_ElementsIndependent ==
    InCall =>
        /\ \A j \in 1..i : SameAsAlone(j, AloneCall(Body(time[j])))
        /\ pc = "error" => AloneCall(Body(time[i + 1])).err = err

C11_Witness ==
    /\ pc = "done"
    /\ n = 2
    /\ 0 < time[2] /\ time[2] < time[1]
    /\ IsFinite(out_arr[1]) /\ out_arr[1] # 0
    /\ IsFinite(out_arr[2]) /\ out_arr[2] # 0
    /\ out_arr[1] # out_arr[2]

\* the locals of the first invocation as a frame
Main ==
    [pc |-> pc, op |-> op, time |-> time, par |-> par, n |-> n, i |-> i,
     out_arr |-> out_arr, x |-> x, reqs |-> reqs, err |-> err]

\* the integrand the method o with the arguments p builds for the time t
FrameKernel(o, p, t) ==
    IF o = "pulsed_str_exp" THEN StrExp(t, p.Lambda, p.Beta, life)
    ELSE MixedStrExp(t, p.Lambda1, p.Beta1, p.Lambda2, p.Beta2, p.alpha, life)

\* the frame fr holds what its invocation computes when it runs alone
AsAlone(fr) ==
    fr.pc \in {"loop", "done", "error"} =>
        /\ Len(fr.out_arr) = Len(fr.time)
        /\ fr.i <= fr.n
        /\ fr.pc = "done" => fr.i = fr.n
        /\ \A j \in 1..fr.n :
              fr.out_arr[j] =
                 IF j <= fr.i THEN FrameBody(fr.op, fr.par, fr.time[j]).out ELSE 0
        /\ fr.pc = "error" =>
              /\ fr.err # ""
              /\ fr.err = FrameBody(fr.op, fr.par, fr.time[fr.i + 1]).err
        /\ \A k \in 1..Len(fr.reqs) :
              fr.reqs[k].req.f = FrameKernel(fr.op, fr.par, fr.time[fr.reqs[k].elem + 1])
        /\ fr.x # <<>> => \E k \in 1..Len(fr.reqs) : fr.x[1] = fr.reqs[k].req

\* C12: with two invocations running on one evaluator, their loop passes
\* interleaved in any order, each holds at every point, and returns, exactly
\* what it computes alone: its outputs, its error, its quadrature requests and
\* its integration object are those of its own times and arguments.
C12_ConcurrentCallsIsolated == AsAlone(Main) /\ AsAlone(other)

C12_Witness ==
    /\ pc = "loop" /\ n = 2 /\ i = 1
    /\ other.pc = "loop" /\ other.n = 2 /\ other.i = 1
    /\ op # other.op
    /\ time[1] > 0 /\ other.time[1] > 0
    /\ IsFinite(out_arr[1]) /\ out_arr[1] > 0
    /\ IsFinite(other.out_arr[1]) /\ other.out_arr[1] > 0
    /\ out_arr[1] # other.out_arr[1]
    /\ x # <<>> /\ other.x # <<>>

\* C13: a quadrature call whose bounds [0, tprime] have a > b (tprime < 0) or
\* a non-finite bound fails with InvalidBounds and leaves no object and no
\* estimate to the statement that constructed it; with finite bounds a <= b
\* it does not fail and returns a number.
C13_InvalidBoundsFail ==
    pc \in {"quad_done", "quad_error"} =>
        IF ~IsFinite(par.tprime) \/ 0 > par.tprime
        THEN /\ pc = "quad_error"
             /\ err = "InvalidBounds"
             /\ x = <<>>
             /\ reqs[1].req.err = "InvalidBounds"
             /\ ~IsFinite(reqs[1].req.out)
        ELSE /\ pc = "quad_done"
             /\ err = ""
             /\ x # <<>>
             /\ x[1].err = ""
             /\ x[1].out # NaN

C13_Witness ==
    /\ pc = "quad_error"
    /\ err = "InvalidBounds"
    /\ par.tprime = PInf
    /\ x = <<>>

\* the request r has proper bounds and the refinement lv of its integral ran
\* through the last level without meeting the tolerance test
Unconverged(r, lv) == IsFinite(r.a) /\ IsFinite(r.b) /\ r.a < r.b /\ ~lv.stop

\* the k-th request of the call returned normally with the estimate lv.est of
\* the last level, and the loop went on after its element
ReturnedLast(k, r, lv) ==
    /\ lv.level = MaxLevel
    /\ r.err = ""
    /\ r.out = lv.est
    /\ reqs[k].elem < i
    /\ out_arr[reqs[k].elem + 1] = Body(time[reqs[k].elem + 1]).out

UnconvergedReturns(k, r, lv) == Unconverged(r, lv) => ReturnedLast(k, r, lv)

\* C14: a quadrature request whose tolerance test is not met at the maximum
\* refinement level is no error: it returns the estimate of that last level,
\* its element gets its output and the call goes on with the next element.
C14_NonConvergenceIsNoError ==
    InCall =>
        \A k \in 1..Len(reqs) :
            UnconvergedReturns(k, reqs[k].req,
                               Levels(reqs[k].req.f, reqs[k].req.a, reqs[k].req.b))

C14_Witness ==
    /\ pc = "done"
    /\ n = 2
    /\ Cardinality(RequestsOf(1)) = 1
    /\ Unconverged(TheRequest(1),
                   Levels(TheRequest(1).f, TheRequest(1).a, TheRequest(1).b))
    /\ IsFinite(out_arr[1]) /\ out_arr[1] > 0
    /\ Cardinality(RequestsOf(2)) = 1
    /\ IsFinite(out_arr[2]) /\ out_arr[2] > 0

\* every element has made at most one quadrature request, none is made for an
\* element not yet reached, and each request was refined through the levels
\* 0..MaxLevel only
RequestsBounded ==
    /\ Len(reqs) <= n
    /\ \A k \in 1..Len(reqs) :
          /\ reqs[k].elem <= i
          /\ reqs[k].elem < n
          /\ \A m \in 1..Len(reqs) : reqs[m].elem = reqs[k].elem => m = k

\* a call in its loop can take its next step: while elements remain, the
\* pass of its method (a pass has no other condition than i < n); after the
\* last one, the return
CanStep ==
    IF i < n THEN op \in {"pulsed_str_exp", "mixed_pulsed_str_exp"}
    ELSE i = n /\ ENABLED (pulsed_str_exp_return \/ mixed_pulsed_str_exp_return)

\* a step of a call in its loop ends the call or passes exactly one element
PassOrEnd ==
    \/ pc' = "done" /\ i = n
    \/ pc' = "error"
    \/ pc' = "loop" /\ i' = i + 1 /\ i' <= n /\ n' = n /\ time' = time

\* C15: a call over a finite time array eventually returns or fails: while it
\* is in its loop a step is always possible, every step ends the call or
\* moves to the next of the n elements, so at most n passes and one return
\* follow; at most one quadrature request is made per element.
C15_EveryCallTerminates ==
    /\ [](InCall => RequestsBounded)
    /\ [](pc = "loop" => CanStep)
    /\ [][pc = "loop" => PassOrEnd]_vars

C15_Witness ==
    /\ pc = "done"
    /\ n = 2
    /\ i = 2
    /\ Len(reqs) = 2
    /\ Levels(reqs[1].req.f, reqs[1].req.a, reqs[1].req.b).level = MaxLevel
    /\ Levels(reqs[2].req.f, reqs[2].req.a, reqs[2].req.b).level < MaxLevel

\* beta outside (0, 1], alpha outside [0, 1]
BetaOutOfRange(b) == b <= 0 \/ b > One
AlphaOutOfRange(a) == a < 0 \/ a > One

\* the kernel of every request carries beta(s) and alpha as passed to the call
ParametersAsGiven ==
    \A k \in 1..Len(reqs) :
        IF IsSingle THEN reqs[k].req.f.beta = par.Beta
        ELSE /\ reqs[k].req.f.beta1 = par.Beta1
             /\ reqs[k].req.f.beta2 = par.Beta2
             /\ reqs[k].req.f.alpha = par.alpha

\* C16: no call is rejected for the value of amp, offset, beta or alpha: a
\* call fails only with ZeroDivisionError, exactly when life is 0, or with
\* InvalidBounds, only when the upper integration bound of the failing element
\* is below 0; the kernels carry beta and alpha as given, and (C1) the outputs
\* are computed from amp and offset as given.
C16_ParametersNotValidated ==
    InCall =>
        /\ ParametersAsGiven
        /\ (life = 0 /\ n > 0) => (pc = "error" \/ (pc = "loop" /\ i = 0))
        /\ pc = "error" =>
              /\ err \in {"ZeroDivisionError", "InvalidBounds"}
              /\ err = "ZeroDivisionError" <=> life = 0
              /\ err = "InvalidBounds" => Bound(time[i + 1], pulse_len) < 0
        /\ (life # 0 /\ \A j \in 1..n : Bound(time[j], pulse_len) >= 0) => pc # "error"

C16_Witness ==
    /\ pc = "done"
    /\ n = 2
    /\ IsMixed
    /\ BetaOutOfRange(par.Beta1)
    /\ AlphaOutOfRange(par.alpha)
    /\ Len(reqs) = 2
    /\ IsFinite(out_arr[1]) /\ out_arr[1] # 0
    /\ IsFinite(out_arr[2]) /\ out_arr[2] # 0

\* the outcome the claim assigns to an element with the time t
Outcome(t) ==
    IF ClaimPrefac(t) = 0 THEN "Sentinel"
    ELSE IF Lt(t, pulse_len) THEN "DuringPulse"
    ELSE "AfterPulse"

\* the elements whose pass has been run: those completed and the one at which
\* the quadrature failed
Processed == 1..(IF pc = "error" /\ err = "InvalidBounds" THEN i + 1 ELSE i)

\* element j took the outcome o, and nothing of the other two
TookOutcome(j, o) ==
    IF o = "Sentinel"
    THEN RequestsOf(j) = {} /\ out_arr[j] = PInf
    ELSE /\ Cardinality(RequestsOf(j)) = 1
         /\ TheRequest(j).a = 0
         /\ TheRequest(j).b = (IF o = "DuringPulse" THEN time[j] ELSE pulse_len)
         /\ TheRequest(j).f = KernelAt(time[j])

\* C18: every element whose pass has run took exactly the one outcome its
\* prefac and time select: Sentinel with no quadrature request, DuringPulse
\* with one request on [0, t], AfterPulse with one request on [0, pulse_len];
\* the requests of the call are as many as its elements with prefac # 0.
C18_OneOutcomePerElement ==
    InCall =>
        /\ \A j \in Processed : TookOutcome(j, Outcome(time[j]))
        /\ Len(reqs) = Cardinality({j \in Processed : ClaimPrefac(time[j]) # 0})

C18_Witness ==
    /\ pc = "done"
    /\ n = 2
    /\ Outcome(time[1]) = "Sentinel"
    /\ Outcome(time[2]) = "AfterPulse"
    /\ pulse_len > 0
    /\ Len(reqs) = 1
    /\ out_arr[1] = PInf
    /\ IsFinite(out_arr[2]) /\ out_arr[2] # 0

\* C19: on an evaluator with life > 0 and pulse_len >= 0, every quadrature
\* request issued by a call, whatever the times, has its lower bound not
\* greater than its upper bound.
C19_RequestBoundsOrdered ==
    (InCall /\ ValidConfig) =>
        \A k \in 1..Len(reqs) : reqs[k].req.a <= reqs[k].req.b

\* C20: on an evaluator with life > 0 (and pulse_len >= 0), every element
\* with a time other than 0 has prefac # 0, is not given the sentinel and
\* makes one quadrature request.
C20_SentinelOnlyAtZero ==
    (InCall /\ ValidConfig) =>
        \A j \in 1..i :
            time[j] # 0 =>
                /\ ClaimPrefac(time[j]) # 0
                /\ Cardinality(RequestsOf(j)) = 1

\* the during-pulse formula amp * I / prefac (+ offset in a single call) for
\* the time t and the integral xout
DuringFormula(t, xout) ==
    IF IsSingle THEN DuringOut(par.amp, xout, ClaimPrefac(t), par.offset)
    ELSE MixedDuringOut(par.amp, xout, ClaimPrefac(t))

\* element j, at the pulse boundary, took the after-pulse branch: one request
\* on [0, pulse_len], which is [0, t], and the factor exp((t - pulse_len)/life)
\* is 1
BoundaryIsAfterPulse(j) ==
    /\ OneRequest(j, pulse_len)
    /\ TheRequest(j).b = time[j]
    /\ exp(Div(Sub(time[j], pulse_len), life)) = One

AtBoundary(j) == time[j] = pulse_len /\ pulse_len > 0 /\ ClaimPrefac(time[j]) # 0

\* C21 as stated: for t = pulse_len > 0 the after-pulse branch is taken with
\* the bounds [0, t] and the factor 1, and its output equals the during-pulse
\* formula amp * I / prefac (+ offset) at the same t.
C21_BoundaryAgrees_AsStated ==
    (InCall /\ ValidConfig) =>
        \A j \in 1..i :
            AtBoundary(j) =>
                /\ BoundaryIsAfterPulse(j)
                /\ out_arr[j] = DuringFormula(time[j], TheRequest(j).out)

\* (amp / prefac) * I (+ offset in a single call): the after-pulse formula with
\* its factor 1 dropped
AfterFormulaAtBoundary(t, xout) ==
    IF IsSingle THEN Add(Mul(Div(par.amp, ClaimPrefac(t)), xout), par.offset)
    ELSE Mul(Div(par.amp, ClaimPrefac(t)), xout)

\* the most by which (amp / prefac) * I and (amp * I) / prefac can differ
\* through the rounding of their two operations, in units of 1/Scale
RoundingSlack(xout, prefac) == (Abs(xout) \div 64) + (16 \div Abs(prefac)) + 2

Close(u, v, slack) ==
    IF IsFinite(u) /\ IsFinite(v) THEN Abs(u - v) <= slack ELSE u = v

\* C21: for t = pulse_len > 0 the after-pulse branch is taken with the bounds
\* [0, pulse_len] = [0, t] and the factor exp(0) = 1; its output is
\* (amp / prefac) * I (+ offset), which agrees with the during-pulse formula
\* (amp * I) / prefac (+ offset) up to the rounding of the two orders of
\* operation, not bit for bit.
C21_BoundaryAgrees ==
    (InCall /\ ValidConfig) =>
        \A j \in 1..i :
            AtBoundary(j) =>
                /\ BoundaryIsAfterPulse(j)
                /\ out_arr[j] = AfterFormulaAtBoundary(time[j], TheRequest(j).out)
                /\ Close(out_arr[j], DuringFormula(time[j], TheRequest(j).out),
                         RoundingSlack(TheRequest(j).out, ClaimPrefac(time[j])))

C21_Witness ==
    /\ pc = "done"
    /\ ValidConfig
    /\ n = 2
    /\ AtBoundary(1) /\ AtBoundary(2)
    /\ IsFinite(out_arr[1]) /\ out_arr[1] > 0
    /\ TheRequest(1).out > 0
    /\ out_arr[1] # DuringFormula(time[1], TheRequest(1).out)


-----------------------------------------------------------------------------
(* DEIntegrator<T>::Integrate(f, a, b, tol) run one level per step: x holds
   the loop's state after each level so far, reqs one record per call of the
   function object, i the comparisons made, n the calls made, par the
   arguments, out_arr the returned estimate *)

RefineLowers == {0, 16}
RefineUppers == {0, 1, 16, 32, 64}

RefineKernels ==
    {StrExp(t, c[1], c[2], lf) : t \in QuadTimes, c \in Components, lf \in QuadLifes}
    \cup
    {MixedStrExp(t, 32, 32, c[1], c[2], al, 64) :
        t \in QuadTimes, c \in SecondComponents, al \in QuadAlphas}

RefineArgs == [f : RefineKernels, a : RefineLowers, b : RefineUppers]

InitRefine ==
    /\ life = 0
    /\ pulse_len = 0
    /\ pc = "refine_new"
    /\ op = ""
    /\ time = <<>>
    /\ par \in RefineArgs
    /\ n = 0
    /\ i = 0
    /\ out_arr = <<>>
    /\ x = <<>>
    /\ reqs = <<>>
    /\ live = 0
    /\ err = ""
    /\ other = NoCall

\* mutant of Evaluated: the call stores its argument in the object
Evaluated_storesPoint(f, tprime) ==
    [val |-> Call(f, tprime), f |-> [f EXCEPT !.t = tprime]]

\* one call f(tprime) of a function object: operator() is a const member that
\* assigns nothing, so the object after the call is the object before it
Evaluated(f, tprime) == [val |-> Call(f, tprime), f |-> f]

\* mutant of Samples: a level evaluates every multiple again, not only the odd
Samples_allNodes(f, a, b, level) ==
    LET last == Pow2(level + 1) - 1
        s[k \in 0..last] ==
            IF k = 0 THEN [f |-> f, log |-> <<>>]
            ELSE [f |-> Evaluated(s[k - 1].f, Abscissa(a, b, level, k)).f,
                  log |-> Append(s[k - 1].log,
                                 [level |-> level, k |-> k,
                                  at |-> Abscissa(a, b, level, k),
                                  val |-> Evaluated(s[k - 1].f,
                                                    Abscissa(a, b, level, k)).val])]
    IN  s[last]

\* the calls a level makes, in order: the odd multiples k = 2j-1 of
\* (b-a)/2^(level+1); f is the function object after them
Samples(f, a, b, level) ==
    LET s[j \in 0..Pow2(level)] ==
            IF j = 0 THEN [f |-> f, log |-> <<>>]
            ELSE [f |-> Evaluated(s[j - 1].f, Abscissa(a, b, level, 2 * j - 1)).f,
                  log |-> Append(s[j - 1].log,
                                 [level |-> level, k |-> 2 * j - 1,
                                  at |-> Abscissa(a, b, level, 2 * j - 1),
                                  val |-> Evaluated(s[j - 1].f,
                                                    Abscissa(a, b, level, 2 * j - 1)).val])]
    IN  s[Pow2(level)]

\* the loop's latest state
Cur == x[Len(x)]

\* the level `level` is run on top of the sum `sum` and the state `prev`
RunLevel(level, sum, prev, s) ==
    /\ x' = Append(x, AfterLevel(par.a, par.b, level,
                                 Add(sum, NewContribution(par.f, par.a, par.b, level)),
                                 prev))
    /\ reqs' = reqs \o s.log
    /\ n' = n + Len(s.log)
    /\ par' = [par EXCEPT !.f = s.f]

\* entry: the bounds are inspected, equal bounds return 0 at once, otherwise
\* level 0 is run
Integrate_start ==
    /\ pc = "refine_new"
    /\ IF ~IsFinite(par.a) \/ ~IsFinite(par.b) \/ par.a > par.b
       THEN /\ pc' = "refine_error"
            /\ err' = "InvalidBounds"
            /\ UNCHANGED <<par, n, out_arr, x, reqs>>
       ELSE IF par.a = par.b
       THEN /\ pc' = "refined"
            /\ out_arr' = <<0>>
            /\ UNCHANGED <<par, n, x, reqs, err>>
       ELSE /\ pc' = "refine"
            /\ RunLevel(0, 0, <<>>, Samples(par.f, par.a, par.b, 0))
            /\ UNCHANGED <<out_arr, err>>
    /\ UNCHANGED <<life, pulse_len, op, time, i, live, other>>

\* one more level, and the comparison of its estimate with the previous one
Integrate_refine ==
    /\ pc = "refine"
    /\ ~Cur.stop
    /\ Cur.level < MaxLevel
    /\ RunLevel(Cur.level + 1, Cur.sum, Cur,
                Samples(par.f, par.a, par.b, Cur.level + 1))
    /\ i' = i + 1
    /\ UNCHANGED <<life, pulse_len, pc, op, time, out_arr, live, err, other>>

\* the loop ends: the latest estimate is the result
Integrate_return ==
    /\ pc = "refine"
    /\ Cur.stop \/ Cur.level = MaxLevel
    /\ pc' = "refined"
    /\ out_arr' = <<Cur.est>>
    /\ UNCHANGED <<life, pulse_len, op, time, par, n, i, x, reqs, live, err, other>>

NextRefine == Integrate_start \/ Integrate_refine \/ Integrate_return

SpecRefine == InitRefine /\ [][NextRefine]_vars

\* the loop has run at least one level
InLoop == pc \in {"refine", "refined"} /\ Len(x) > 0

(* C22: the refinement loop starts at level 0, compares the estimate after
   each later level with the previous level's estimate, and returns at the
   first level whose estimate moved by less than the tolerance or at the
   maximum level: never before one comparison, never beyond the maximum. *)
C22_RefinementLoop ==
    InLoop =>
        /\ Len(x) <= MaxLevel + 1
        /\ \A m \in 1..Len(x) : x[m].level = m - 1
        /\ i = Len(x) - 1
        /\ ~x[1].stop
        /\ \A m \in 2..Len(x) : x[m].stop = Converged(x[m].est, x[m - 1].est)
        /\ \A m \in 1..(Len(x) - 1) : ~x[m].stop
        /\ pc = "refined" =>
               /\ Len(x) >= 2
               /\ i >= 1
               /\ Cur.stop \/ Cur.level = MaxLevel
               /\ out_arr = <<Cur.est>>
               /\ out_arr[1] = Integrate(par.f, par.a, par.b).val

C22_Witness ==
    /\ pc = "refined"
    /\ Len(x) = 2
    /\ Cur.stop
    /\ Cur.est > 0


\* the place of a logged evaluation on the finest grid: node k of a level is
\* the point a + k (b-a)/2^(level+1), i.e. node k 2^(MaxLevel-level) of MaxLevel
NodePos(r) == r.k * Pow2(MaxLevel - r.level)

\* the sum of all logged evaluations, a non-finite one counting as zero
SumOfLog(log) ==
    LET acc[m \in 0..Len(log)] ==
            IF m = 0 THEN 0 ELSE Add(acc[m - 1], Finite0(log[m].val))
    IN  acc[Len(log)]

(* C23: across the levels of one quadrature call the integrand is evaluated
   at most once per abscissa: a level only evaluates the new abscissas that
   lie between those of the earlier levels, and the running sum is the sum of
   all evaluations made so far. *)
C23_EvaluatedOncePerAbscissa ==
    InLoop =>
        /\ n = Len(reqs)
        /\ n = Pow2(Len(x)) - 1
        /\ \A m \in 1..Len(reqs) :
               /\ reqs[m].level \in 0..Cur.level
               /\ reqs[m].k \in 1..(Pow2(reqs[m].level + 1) - 1)
               /\ reqs[m].k % 2 = 1
               /\ reqs[m].at = Abscissa(par.a, par.b, reqs[m].level, reqs[m].k)
        /\ \A m1, m2 \in 1..Len(reqs) :
               m1 # m2 => NodePos(reqs[m1]) # NodePos(reqs[m2])
        /\ Cur.sum = SumOfLog(reqs)
        /\ Cur.est = Estimate(par.a, par.b, Cur.level, Cur.sum)

C23_Witness ==
    /\ pc = "refined"
    /\ Len(x) = MaxLevel + 1
    /\ n = 7
    /\ \A m \in 1..Len(reqs) : reqs[m].val > 0 /\ IsFinite(reqs[m].val)
    /\ \A m1, m2 \in 1..Len(reqs) : m1 # m2 => reqs[m1].at # reqs[m2].at
    /\ x[2].sum > x[1].sum
    /\ x[3].sum > x[2].sum


\* the logged evaluations with a finite value
FiniteOnes(log) == SelectSeq(log, LAMBDA r : IsFinite(r.val))

\* the plain sum of the values of a log
PlainSum(log) ==
    LET acc[m \in 0..Len(log)] ==
            IF m = 0 THEN 0 ELSE Add(acc[m - 1], log[m].val)
    IN  acc[Len(log)]

(* C24: an evaluation that yields NaN or an infinity adds zero to the running
   sum and does not abort the call: the sum is the sum of the finite
   evaluations and is finite, no error is raised, and the call returns the
   estimate formed from that sum. *)
C24_NonFiniteAddsZero ==
    InLoop =>
        /\ err = ""
        /\ \A m \in 1..Len(x) : IsFinite(x[m].sum)
        /\ Cur.sum = PlainSum(FiniteOnes(reqs))
        /\ pc = "refined" =>
               /\ out_arr[1] = Estimate(par.a, par.b, Cur.level, PlainSum(FiniteOnes(reqs)))
               /\ IsFinite(out_arr[1])

C24_Witness ==
    /\ pc = "refined"
    /\ \E m \in 1..Len(reqs) : reqs[m].val = NaN
    /\ \E m \in 1..Len(reqs) : IsFinite(reqs[m].val) /\ reqs[m].val > 0
    /\ out_arr[1] > 0


-----------------------------------------------------------------------------
(* two integration objects for one kernel and two upper limits x1 <= x2 <= t:
   par holds the kernel's arguments and the two limits, x the two objects *)

PairUppers == {0, 1, 8, 16, 24, 32, 48, 64}
PairAlphas == {0, 16, 32}

PairArgs ==
    {[cls |-> "IntegralStrExp", t |-> t, tprime |-> x2, first |-> x1,
      l |-> c[1], b |-> c[2], lf |-> lf] :
        t \in QuadTimes, x1 \in PairUppers, x2 \in PairUppers,
        c \in {d \in Components : d[1] > 0}, lf \in QuadLifes}
    \cup
    {[cls |-> "IntegralMixedStrExp", t |-> t, tprime |-> x2, first |-> x1,
      l1 |-> c[1], b1 |-> c[2], l2 |-> 32, b2 |-> 32, a |-> al, lf |-> 64] :
        t \in QuadTimes, x1 \in PairUppers, x2 \in PairUppers,
        c \in {d \in Components : d[1] > 0}, al \in PairAlphas}

InitPair ==
    /\ life = 0
    /\ pulse_len = 0
    /\ pc = "pair"
    /\ op = ""
    /\ time = <<>>
    /\ par \in {p \in PairArgs : p.first <= p.tprime /\ p.tprime <= p.t}
    /\ n = 0
    /\ i = 0
    /\ out_arr = <<>>
    /\ x = <<>>
    /\ reqs = <<>>
    /\ live = 0
    /\ err = ""
    /\ other = NoCall

\* the object for [0, first], then the object for [0, tprime]
New_Pair ==
    /\ pc = "pair"
    /\ pc' = "pair_done"
    /\ x' = <<Construct([par EXCEPT !.tprime = par.first]), Construct(par)>>
    /\ live' = live + 2
    /\ UNCHANGED <<life, pulse_len, op, time, par, n, i, out_arr, reqs, err, other>>

NextPair == New_Pair

SpecPair == InitPair /\ [][NextPair]_vars

\* the abscissas the quadrature may use on [0, b]
GridOn(b) == {Abscissa(0, b, MaxLevel, k) : k \in 1..(Pow2(MaxLevel + 1) - 1)}

(* C25: for lambda > 0, life > 0 (and alpha in [0, 1] for the mixed kernel)
   the kernel is non-negative at every integration point, and the raw
   integral over [0, x1] is not greater than the one over [0, x2] whenever
   0 <= x1 <= x2 <= t. *)
C25_IntegralMonotone ==
    pc = "pair_done" =>
        /\ \A xx \in GridOn(x[2].b) : IsFinite(Call(x[2].f, xx)) /\ Call(x[2].f, xx) >= 0
        /\ x[1].err = "" /\ x[2].err = ""
        /\ x[1].out <= x[2].out

C25_Witness ==
    /\ pc = "pair_done"
    /\ 0 < x[1].b /\ x[1].b < x[2].b
    /\ 0 < x[1].out /\ x[1].out < x[2].out
    /\ x[1].f.cls = "MixedStrExp"


\* every logged value is what the kernel as it is now gives at that point
ValuesOfKernel == \A m \in 1..Len(reqs) : reqs[m].val = Call(par.f, reqs[m].at)

\* two evaluations at the same point gave the same value
SamePointSameValue ==
    \A m1, m2 \in 1..Len(reqs) :
        reqs[m1].at = reqs[m2].at => reqs[m1].val = reqs[m2].val

(* C26: evaluating a kernel object changes none of its parameters: the
   kernel handed to the quadrature is the same object state after every step
   of the call, and two evaluations at the same point return the same value. *)
C26_KernelIsConstant ==
    /\ [](InLoop => ValuesOfKernel /\ SamePointSameValue)
    /\ [][par'.f = par.f]_vars

C26_Witness ==
    /\ pc = "refined"
    /\ n >= 3
    /\ \E m1, m2 \in 1..Len(reqs) :
           /\ m1 # m2
           /\ reqs[m1].at = reqs[m2].at
           /\ reqs[m1].val > 0


\* element j made one quadrature request on [0, 0], answered with 0
DegenerateRequest(j) ==
    /\ Cardinality(RequestsOf(j)) = 1
    /\ TheRequest(j).a = 0
    /\ TheRequest(j).b = 0
    /\ TheRequest(j).out = 0

(* C27: with pulse_len = 0 every element with t > 0 takes the after-pulse
   branch with the bounds [0, 0], for which the quadrature returns 0; the
   output of a single-component call for such an element is exactly offset,
   that of a mixed call exactly 0. *)
C27_ZeroPulseGivesOffset ==
    (InCall /\ ValidConfig /\ pulse_len = 0) =>
        \A j \in 1..i :
            time[j] > 0 =>
                /\ DegenerateRequest(j)
                /\ out_arr[j] = (IF IsSingle THEN par.offset ELSE 0)


(* C28: a call does not modify its input: from entry to the return or the
   error no step changes the time array, and the output array is a separate
   array of the same length that the stores go to. *)
C28_InputNotModified ==
    /\ [](InCall => Len(out_arr) = Len(time) /\ n = Len(time))
    /\ [][pc = "loop" => time' = time]_vars

C28_Witness ==
    /\ pc = "done"
    /\ n = 2
    /\ time[1] > 0 /\ time[2] > 0
    /\ IsFinite(out_arr[1]) /\ out_arr[1] # time[1]
    /\ IsFinite(out_arr[2]) /\ out_arr[2] # time[2]


(* C29: every integration object created during a call is destroyed by the
   time the call returns: before and after every call the number of live
   integration objects is 0. *)
C29_NoObjectOutlivesCall == pc \in {"idle", "done", "error"} => live = 0


-----------------------------------------------------------------------------
(* mudpy.pyx: get_hist_n_bins and get_hist_data on one histogram of one file
   handle.  par is what the MUD library holds for the handle and histogram
   id, i the value a call of get_hist_n_bins returned, n the local nbins of
   get_hist_data, out_arr the array get_hist_data returned.  unsigned int and
   int are IntBits wide. *)

IntBits == 4
UInts == 0..(2 ^ IntBits - 1)

\* <int>value: the conversion of an unsigned int to int keeps the bits
ToInt(u) == IF u >= 2 ^ (IntBits - 1) THEN u - 2 ^ IntBits ELSE u

\* what the library holds: ok says whether the handle and the histogram id
\* are valid, nBins is the header's bin count, readable whether the data
\* section can be read
MudFiles == [ok : BOOLEAN, nBins : UInts, readable : BOOLEAN]

\* the count stored in bin k
Count(k) == k

\* int MUD_getHistNumBins(fh, num, unsigned int* pNumBins): the status and
\* the content of *pNumBins after the call, value being its content before
MUD_getHistNumBins(file, value) ==
    IF file.ok THEN [status |-> 1, value |-> file.nBins]
    ELSE [status |-> 0, value |-> value]

\* int MUD_getHistData(fh, num, void* pData): the status, the buffer a after
\* the call, and whether the call wrote past the end of the buffer
MUD_getHistData(file, a) ==
    IF file.ok /\ file.readable
    THEN [status |-> 1,
          a |-> [k \in 1..Len(a) |-> IF k <= file.nBins THEN Count(k) ELSE a[k]],
          past |-> file.nBins > Len(a)]
    ELSE [status |-> 0, a |-> a, past |-> FALSE]

\* get_hist_n_bins: value is declared without an initial value (garbage is
\* what the variable happens to hold), the status is not looked at, and the
\* unsigned value is returned as int
get_hist_n_bins(file, garbage) == ToInt(MUD_getHistNumBins(file, garbage).value)

\* [0]*nbins: the empty list for nbins <= 0
ZeroList(nbins) == IF nbins > 0 THEN [k \in 1..nbins |-> 0] ELSE <<>>

InitMud ==
    /\ life = 0
    /\ pulse_len = 0
    /\ pc = "mud"
    /\ op = ""
    /\ time = <<>>
    /\ par \in MudFiles
    /\ n = 0
    /\ i = 0
    /\ out_arr = <<>>
    /\ x = <<>>
    /\ reqs = <<>>
    /\ live = 0
    /\ err = ""
    /\ other = NoCall

\* a call of get_hist_n_bins by the user
Call_get_hist_n_bins ==
    /\ pc = "mud"
    /\ \E garbage \in UInts :
           i' = get_hist_n_bins(par, garbage)
    /\ pc' = "mud_counted"
    /\ UNCHANGED <<life, pulse_len, op, time, par, n, out_arr, x, reqs, live, err, other>>

\* a call of get_hist_data for the same handle and id: a write past the end
\* of the buffer either ends the process or goes unnoticed
get_hist_data ==
    /\ pc = "mud_counted"
    /\ \E garbage \in UInts, crash \in BOOLEAN :
           LET nbins == get_hist_n_bins(par, garbage)
               r == MUD_getHistData(par, ZeroList(nbins))
           IN  /\ n' = nbins
               /\ IF r.past /\ crash
                  THEN /\ pc' = "mud_crash"
                       /\ UNCHANGED out_arr
                  ELSE /\ pc' = "mud_done"
                       /\ out_arr' = r.a
    /\ UNCHANGED <<life, pulse_len, op, time, par, i, x, reqs, live, err, other>>

NextMud == Call_get_hist_n_bins \/ get_hist_data

SpecMud == InitMud /\ [][NextMud]_vars

(* C30: get_hist_data returns an array whose length is the value
   get_hist_n_bins returns for the same handle and histogram id, one entry
   per bin; a failed read of the data returns the zero-initialised array of
   that length rather than an error. *)
C30_HistDataLength ==
    /\ pc # "mud_crash"
    /\ pc = "mud_done" =>
           /\ Len(out_arr) = i
           /\ ~(par.ok /\ par.readable) => out_arr = ZeroList(i)

====
